---- MODULE Spec2Model ----
(***************************************************************************)
(* Model of the real-time stats monitor of src/stats.c: the accumulator    *)
(* table (s_accumulated_infos), one reconciliation pass                    *)
(* (print_real_time_stats), the periodic driver (stats_task) and the       *)
(* stopwatch (stats_run_time_start, stats_run_time_stop).  Spec is          *)
(* stats_task pass by pass, SpecConc the pass statement by statement        *)
(* against a concurrent reset, SpecTable the table functions call by call,  *)
(* SpecPct the percentage of line 166 value by value, SpecWatch the         *)
(* stopwatch.                                                               *)
(*                                                                         *)
(* Pointers are numbers, NULL is 0.  A task handle is the number of the    *)
(* task; pcTaskName points into the task's control block, so the name      *)
(* pointer of task h is modelled by h as well, and TaskText(h) is the text *)
(* stored there.  uint32_t arithmetic is taken modulo UINT32_MOD, a        *)
(* narrowed word (TLC's integers are 32 bits wide); uint64_t sums stay far *)
(* below 2^64 within the bounds and are plain naturals.                    *)
(***************************************************************************)
EXTENDS Integers, Sequences, FiniteSets, TLC

\* ---------------------------------------------------------------- constants
NULL == 0
ACCUMULATED_INFO_NUM == 16
ARRAY_SIZE_OFFSET == 5
portNUM_PROCESSORS == 2
NO_DST == 255
STATS_MEASURE_STOP == 0
STATS_MEASURE_START == 1

\* ------------------------------------------------------------------- bounds
UINT32_MOD == 65536
MaxPasses == 2
MaxElapsed == 1
ResidentElapsed == 1
MaxClock == 4

\* Tasks that live for the whole run, and tasks that come and go.
ResidentTasks == 1..15
DynamicTasks == 16..17
Tasks == ResidentTasks \cup DynamicTasks
\* The tasks of the statement-by-statement specification.
ConcResident == {1}
ConcDynamic == {}

\* Text of the name of task h: the dynamic tasks all carry the same text.
TaskText(h) == IF h \in ResidentTasks THEN <<"sys", h>> ELSE <<"spin">>

Slots == 0..(ACCUMULATED_INFO_NUM - 1)
BufIds == 1..2

ESP_OK == "ESP_OK"
ESP_ERR_NO_MEM == "ESP_ERR_NO_MEM"
ESP_ERR_INVALID_SIZE == "ESP_ERR_INVALID_SIZE"
ESP_ERR_INVALID_STATE == "ESP_ERR_INVALID_STATE"

VARIABLES
    s_accumulated_infos,  \* [Slots -> [task_name, time, is_running]]
    pc,                   \* where stats_task is
    ret,                  \* ret of the pass in progress / of the last pass
    start_array,          \* pointer: NULL or a buffer id
    end_array,
    start_data,           \* contents of *start_array
    end_data,
    start_array_size,
    end_array_size,
    start_run_time,
    end_run_time,
    total_elapsed_time,
    i,                    \* index of the matching loop
    report,               \* rows printed by the pass
    err_log,              \* names for which "buffer is full" was logged
    heap,                 \* buffer ids that are allocated
    double_free,          \* a buffer was released twice
    fault,                \* "none", or why the task trapped
    \* the reset task and the slot-level position of stats_task
    \* (interleaving specification only)
    rpc, ri, si, dst_idx, cur, res,
    \* history, not read by the program
    snap_start, snap_end, \* the two snapshots as captured
    fed,                  \* arguments of the set_accumulated_info calls
    acquired,             \* buffers acquired by the pass
    npass,                \* passes started
    run_sum,              \* per task: elapsed over its run of matched passes
    rec_sum,              \* same, the run restarted by a reset or a full table
    prev_names,           \* names with a record when the last successful pass returned
    reset_seen,           \* the table was reset and no pass has recorded since
    tbl_before,           \* the table before the pass (or the table call) began
    \* the stopwatch (stopwatch specification only)
    handler,              \* the stats_run_time_t: [time, start, state]
    esp_timer,            \* what esp_timer_get_time returns
    \* history of the stopwatch
    sw_last,              \* the last call and the handler before it
    sw_sum,               \* sum of the lengths of the closed intervals
    sw_open               \* when the open interval began, or -1

progvars == <<s_accumulated_infos, pc, ret, start_array, end_array, start_data,
              end_data, start_array_size, end_array_size, start_run_time,
              end_run_time, total_elapsed_time, i, report, err_log, heap,
              double_free, fault>>
concvars == <<rpc, ri, si, dst_idx, cur, res>>
histvars == <<snap_start, snap_end, fed, acquired, npass, run_sum, rec_sum,
              prev_names>>
auxvars == <<reset_seen, tbl_before>>
watchvars == <<handler, esp_timer, sw_last, sw_sum, sw_open>>
vars == <<progvars, concvars, histvars, auxvars, watchvars>>

\* --------------------------------------------------------------- arithmetic
Sub32(a, b) == (a - b + UINT32_MOD) % UINT32_MOD
Add32(a, b) == (a + b) % UINT32_MOD
Mul32(a, b) == (a * b) % UINT32_MOD

\* ------------------------------------------------------- accumulator table
EmptySlot == [task_name |-> NULL, time |-> 0, is_running |-> FALSE]

ResetNamesOnly ==
    [s \in Slots |-> [s_accumulated_infos[s] EXCEPT !.task_name = NULL,
                                                    !.is_running = FALSE]]
stats_reset_accumulated_infos == [s \in Slots |-> EmptySlot]

\* The slot loop of set_accumulated_info from slot s on; dst is dst_idx.
\* The result is the table and whether "buffer is full" was logged.
RECURSIVE SetLoop(_, _, _, _)
SetLoop(tbl, info, s, dst) ==
    IF s < ACCUMULATED_INFO_NUM
    THEN IF tbl[s].task_name = info.task_name
         THEN [tbl |-> [tbl EXCEPT ![s].time = @ + info.time,
                                   ![s].is_running = TRUE],
               full |-> FALSE]
         ELSE IF tbl[s].task_name = NULL /\ dst = NO_DST
              THEN SetLoop(tbl, info, s + 1, s)
              ELSE SetLoop(tbl, info, s + 1, dst)
    ELSE IF dst = NO_DST
         THEN [tbl |-> tbl, full |-> TRUE]
         ELSE [tbl |-> [tbl EXCEPT ![dst] = [task_name |-> info.task_name,
                                             time |-> info.time,
                                             is_running |-> TRUE]],
               full |-> FALSE]

SetOverwrites(tbl, info) ==
    LET r == SetLoop(tbl, info, 0, NO_DST)
    IN  [r EXCEPT !.tbl = [s \in Slots |->
            IF r.tbl[s].task_name = info.task_name
            THEN [r.tbl[s] EXCEPT !.time = info.time]
            ELSE r.tbl[s]]]

SetNeverFinds(tbl, info) ==
    LET free == {s \in Slots : tbl[s].task_name = NULL}
        dst == CHOOSE s \in free : \A t \in free : s <= t
    IN  IF free = {}
        THEN [tbl |-> tbl, full |-> TRUE]
        ELSE [tbl |-> [tbl EXCEPT ![dst] =
                          [task_name |-> info.task_name, time |-> info.time,
                           is_running |-> TRUE]],
              full |-> FALSE]

SetFullTakesLast(tbl, info) ==
    LET r == SetLoop(tbl, info, 0, NO_DST)
    IN  IF r.full
        THEN [tbl |-> [tbl EXCEPT ![ACCUMULATED_INFO_NUM - 1] =
                          [task_name |-> info.task_name, time |-> info.time,
                           is_running |-> TRUE]],
              full |-> FALSE]
        ELSE r

SetKeepsSeen(tbl, info) ==
    LET r == SetLoop(tbl, info, 0, NO_DST)
    IN  [r EXCEPT !.tbl = [s \in Slots |->
            IF tbl[s].task_name = info.task_name
            THEN [r.tbl[s] EXCEPT !.is_running = tbl[s].is_running]
            ELSE r.tbl[s]]]

set_accumulated_info(tbl, info) == SetLoop(tbl, info, 0, NO_DST)

\* get_accumulated_info: the slot found, or -1 for NULL.
RECURSIVE GetLoop(_, _, _)
GetLoop(tbl, name, s) ==
    IF s < ACCUMULATED_INFO_NUM
    THEN IF tbl[s].task_name = name THEN s ELSE GetLoop(tbl, name, s + 1)
    ELSE -1

get_accumulated_info(tbl, name) == GetLoop(tbl, name, 0)

EndCalcKeepsTime(tbl) ==
    [s \in Slots |->
        IF ~tbl[s].is_running
        THEN [tbl[s] EXCEPT !.task_name = NULL]
        ELSE [tbl[s] EXCEPT !.is_running = FALSE]]

EndCalcKeepsUnseen(tbl) ==
    [s \in Slots |-> [tbl[s] EXCEPT !.is_running = FALSE]]

end_calc_accumulated_info(tbl) ==
    [s \in Slots |->
        IF ~tbl[s].is_running
        THEN [tbl[s] EXCEPT !.task_name = NULL, !.time = 0]
        ELSE [tbl[s] EXCEPT !.is_running = FALSE]]

\* ------------------------------------------------------------- environment
Min(S) == CHOOSE x \in S : \A y \in S : x <= y
Max(S) == CHOOSE x \in S : \A y \in S : x >= y

RECURSIVE Ascending(_)
Ascending(S) == IF S = {} THEN <<>> ELSE <<Min(S)>> \o Ascending(S \ {Min(S)})
RECURSIVE Descending(_)
Descending(S) == IF S = {} THEN <<>> ELSE <<Max(S)>> \o Descending(S \ {Max(S)})

Ordered(S, order) == IF order = "asc" THEN Ascending(S) ELSE Descending(S)

\* The first capture: the order of the tasks in the array, and the value of
\* the run time counters (no counter, or every counter, wraps in the window).
Captures == {[order |-> "asc", base |-> 0],
             [order |-> "desc", base |-> UINT32_MOD - 1]}
\* Ticks of the scheduler-wide counter over one window.
Totals == {0, 4 * MaxElapsed}

\* The array uxTaskGetSystemState fills for the tasks of `live`, the counter
\* of task h being ctr[h].
TaskStatusArray(live, order, ctr) ==
    LET hs == Ordered(live, order)
    IN  [n \in 1..Len(hs) |-> [xHandle |-> hs[n], pcTaskName |-> hs[n],
                               ulRunTimeCounter |-> ctr[hs[n]]]]

\* Its return value: the number of tasks, or 0 when they do not fit.
uxTaskGetSystemState(ntasks, capacity) ==
    IF ntasks > capacity THEN 0 ELSE ntasks

\* ---------------------------------------------------------------- the heap
malloc_ok(h) == Min(BufIds \ h)

FreeOf(h, p) == IF p = NULL THEN h ELSE h \ {p}
IsDoubleFree(h, p) == p # NULL /\ p \notin h

NoBuf == [task_name |-> NULL, time |-> 0, k |-> -1]

\* ------------------------------------------------------------ the stopwatch
\* stats_run_time_init: the handler a caller gets (the name is not modelled).
stats_run_time_init ==
    [time |-> 0, start |-> 0, state |-> STATS_MEASURE_STOP]

\* Lines 241-246: stats_run_time_start on a handler that is not NULL, now
\* being what esp_timer_get_time returns.
StartRestarts(h, now) ==
    [h EXCEPT !.state = STATS_MEASURE_START, !.start = now]
stats_run_time_start(h, now) ==
    IF h.state = STATS_MEASURE_START THEN h
    ELSE [h EXCEPT !.state = STATS_MEASURE_START, !.start = now]

\* Lines 254-259: stats_run_time_stop on a handler that is not NULL.
stats_run_time_stop(h, now) ==
    IF h.state = STATS_MEASURE_STOP THEN h
    ELSE [h EXCEPT !.state = STATS_MEASURE_STOP,
                   !.time = @ + (now - h.start)]

\* ------------------------------------------------------------------- Init
Init ==
    /\ s_accumulated_infos = [s \in Slots |-> EmptySlot]
    /\ pc = "loop"
    /\ ret = "none"
    /\ start_array = NULL /\ end_array = NULL
    /\ start_data = <<>> /\ end_data = <<>>
    /\ start_array_size = 0 /\ end_array_size = 0
    /\ start_run_time = 0 /\ end_run_time = 0 /\ total_elapsed_time = 0
    /\ i = 0
    /\ report = <<>>
    /\ err_log = {}
    /\ heap = {}
    /\ double_free = FALSE
    /\ fault = "none"
    /\ rpc = "idle" /\ ri = 0 /\ si = 0
    /\ dst_idx = NO_DST /\ cur = NoBuf /\ res = -1
    /\ snap_start = <<>> /\ snap_end = <<>>
    /\ fed = <<>>
    /\ acquired = 0
    /\ npass = 0
    /\ run_sum = [h \in Tasks |-> 0]
    /\ rec_sum = [h \in Tasks |-> 0]
    /\ prev_names = {}
    /\ reset_seen = FALSE
    /\ tbl_before = [s \in Slots |-> EmptySlot]
    /\ handler = stats_run_time_init
    /\ esp_timer = 0
    /\ sw_last = [call |-> "init", before |-> stats_run_time_init]
    /\ sw_sum = 0
    /\ sw_open = -1


\* ------------------------------------------------- print_real_time_stats
\* Lines 113-118: the first allocation fails.
StartNoMem ==
    /\ UNCHANGED watchvars
    /\ pc = "loop" /\ npass < MaxPasses
    /\ pc' = "exit"
    /\ ret' = ESP_ERR_NO_MEM
    /\ start_array' = NULL /\ end_array' = NULL
    /\ start_data' = <<>> /\ end_data' = <<>>
    /\ report' = <<>> /\ err_log' = {} /\ fed' = <<>>
    /\ snap_start' = <<>> /\ snap_end' = <<>>
    /\ acquired' = 0
    /\ npass' = npass + 1
    /\ i' = 0
    /\ tbl_before' = s_accumulated_infos
    /\ UNCHANGED <<s_accumulated_infos, start_array_size, end_array_size,
                   start_run_time, end_run_time, total_elapsed_time, heap,
                   double_free, fault, concvars, run_sum, rec_sum, prev_names,
                   reset_seen>>

\* Lines 113-126: the first allocation and the first capture.  `grown` tasks
\* were created between uxTaskGetNumberOfTasks and uxTaskGetSystemState.
StartCapture(resident, dynamic) ==
    /\ UNCHANGED watchvars
    /\ pc = "loop" /\ npass < MaxPasses
    /\ \E live \in {resident \cup d : d \in SUBSET dynamic},
          grown \in {0, ARRAY_SIZE_OFFSET + 1},
          cap \in Captures :
         LET capacity == Cardinality(live) + ARRAY_SIZE_OFFSET
             n == uxTaskGetSystemState(Cardinality(live) + grown, capacity)
             arr == TaskStatusArray(live, cap.order,
                                    [h \in live |-> cap.base])
             p == malloc_ok(heap)
         IN  /\ start_array' = p
             /\ heap' = heap \cup {p}
             /\ end_array' = NULL
             /\ start_array_size' = n
             /\ IF n = 0
                THEN /\ ret' = ESP_ERR_INVALID_SIZE
                     /\ pc' = "exit"
                     /\ start_data' = <<>>
                     /\ snap_start' = <<>>
                     /\ UNCHANGED start_run_time
                ELSE /\ ret' = "none"
                     /\ pc' = "delay"
                     /\ start_data' = arr
                     /\ snap_start' = arr
                     /\ start_run_time' = cap.base
    /\ end_data' = <<>>
    /\ report' = <<>> /\ err_log' = {} /\ fed' = <<>>
    /\ snap_end' = <<>>
    /\ acquired' = 1
    /\ npass' = npass + 1
    /\ i' = 0
    /\ tbl_before' = s_accumulated_infos
    /\ UNCHANGED <<s_accumulated_infos, end_array_size, end_run_time,
                   total_elapsed_time, double_free, fault, concvars,
                   run_sum, rec_sum, prev_names, reset_seen>>

\* Lines 129-134: the second allocation fails.
EndNoMem ==
    /\ UNCHANGED <<auxvars, watchvars>>
    /\ pc = "delay"
    /\ pc' = "exit"
    /\ ret' = ESP_ERR_NO_MEM
    /\ UNCHANGED <<s_accumulated_infos, start_array, end_array, start_data,
                   end_data, start_array_size, end_array_size, start_run_time,
                   end_run_time, total_elapsed_time, i, report, err_log, heap,
                   double_free, fault, concvars, histvars>>

\* Line 144.
DegenerateNever(total) == FALSE
IsDegenerate(total) == total = 0

\* Lines 129-150: the second allocation, the second capture and the window.
\* elapsed[h] is what task h ran during the delay.
EndCapture(resident, dynamic) ==
    /\ UNCHANGED <<auxvars, watchvars>>
    /\ pc = "delay"
    /\ \E live \in {resident \cup d : d \in SUBSET dynamic},
          grown \in {0, ARRAY_SIZE_OFFSET + 1},
          total \in Totals,
          elapsed \in [dynamic -> 0..MaxElapsed] :
         LET capacity == Cardinality(live) + ARRAY_SIZE_OFFSET
             n == uxTaskGetSystemState(Cardinality(live) + grown, capacity)
             old == {start_data[m].xHandle : m \in 1..Len(start_data)}
             ctr == [h \in live |->
                       Add32(start_run_time,
                             IF h \in resident THEN ResidentElapsed
                                               ELSE elapsed[h])]
             arr == TaskStatusArray(live, IF start_data[1].xHandle = Min(old)
                                          THEN "asc" ELSE "desc", ctr)
             p == malloc_ok(heap)
             t == Sub32(Add32(start_run_time, total), start_run_time)
         IN  \* a task that is not in both snapshots has no elapsed time
             /\ \A h \in dynamic : h \notin (live \cap old) => elapsed[h] = 0
             /\ end_array' = p
             /\ heap' = heap \cup {p}
             /\ end_array_size' = n
             /\ acquired' = 2
             /\ IF n = 0
                THEN /\ ret' = ESP_ERR_INVALID_SIZE
                     /\ pc' = "exit"
                     /\ UNCHANGED <<end_data, snap_end, end_run_time,
                                    total_elapsed_time>>
                ELSE /\ end_data' = arr
                     /\ snap_end' = arr
                     /\ end_run_time' = Add32(start_run_time, total)
                     /\ total_elapsed_time' = t
                     /\ IF IsDegenerate(t)
                        THEN ret' = ESP_ERR_INVALID_STATE /\ pc' = "exit"
                        ELSE ret' = "none" /\ pc' = "match"
    /\ i' = 0
    /\ UNCHANGED <<s_accumulated_infos, start_array, start_data,
                   start_array_size, start_run_time, report, err_log,
                   double_free, fault, concvars, snap_start, fed, npass,
                   run_sum, rec_sum, prev_names>>


\* Line 155: are the two entries the same task?
SameName(se, ee) ==
    /\ se.xHandle # NULL /\ ee.xHandle # NULL
    /\ TaskText(se.pcTaskName) = TaskText(ee.pcTaskName)
SameTask(se, ee) == se.xHandle = ee.xHandle

\* Lines 153-162: the inner loop from j on; the index found, or -1.
RECURSIVE FindMatch(_, _, _, _)
FindMatch(se, earr, size, j) ==
    IF j < size
    THEN IF SameTask(se, earr[j + 1]) THEN j
         ELSE FindMatch(se, earr, size, j + 1)
    ELSE -1

\* Lines 158-159: overwrite the handle of a matched entry.
MarkNothing(arr, n) == arr
MarkMatched(arr, n) == [arr EXCEPT ![n + 1].xHandle = NULL]

\* Line 165: task_elapsed_time, an unsigned 32-bit difference.
TaskElapsedDistance(end_ctr, start_ctr) ==
    IF end_ctr >= start_ctr THEN end_ctr - start_ctr ELSE start_ctr - end_ctr
TaskElapsed(end_ctr, start_ctr) == Sub32(end_ctr, start_ctr)

\* Line 166, when the divisor is not zero.
PercentageOf(task_elapsed, total) ==
    Mul32(task_elapsed, 100) \div Mul32(total, portNUM_PROCESSORS)

\* What a read through a NULL accumulated_info_t pointer can yield when it
\* does not trap.
WildReads == {0, 1}

MatchedRow(n, k, name, task_elapsed, acc, pct) ==
    [kind |-> "Matched", idx |-> n, k |-> k, name |-> name,
     run_time |-> task_elapsed, accumulated |-> acc, percentage |-> pct]

\* Lines 152-177, one iteration of the outer loop, for start_array[n].
\* st holds what the loop reads and writes; the result is the set of states
\* the iteration can end in (more than one where the code's behaviour is
\* undefined).  st.fault # "none" means the task trapped.
MatchEntry(st, n) ==
    LET se == st.sarr[n + 1]
        k == FindMatch(se, st.earr, Len(st.earr), 0)
        task_elapsed == TaskElapsed(st.earr[k + 1].ulRunTimeCounter,
                                    se.ulRunTimeCounter)
        buf == [task_name |-> se.pcTaskName, time |-> task_elapsed]
        r == set_accumulated_info(st.tbl, buf)
        found == get_accumulated_info(r.tbl, se.pcTaskName)
        marked == [st EXCEPT !.sarr = MarkMatched(st.sarr, n),
                             !.earr = MarkMatched(st.earr, k)]
        recorded == [marked EXCEPT
                        !.tbl = r.tbl,
                        !.fed = Append(@, buf),
                        !.err_log = IF r.full THEN @ \cup {se.pcTaskName}
                                    ELSE @]
        row(acc) == MatchedRow(n, k, se.pcTaskName, task_elapsed, acc,
                               PercentageOf(task_elapsed, st.total))
    IN  IF k < 0 THEN {st}
        ELSE IF Mul32(st.total, portNUM_PROCESSORS) = 0
        THEN \* line 166 divides by zero
             {[marked EXCEPT !.fault = "div_zero"]}
        ELSE IF found >= 0
        THEN {[recorded EXCEPT !.report = Append(@, row(r.tbl[found].time))]}
        ELSE \* line 175 reads res->time with res = NULL
             {[recorded EXCEPT !.fault = "null_deref"]}
             \cup {[recorded EXCEPT !.report = Append(@, row(w))] :
                     w \in WildReads}

\* Lines 152-177: the outer loop from n on.
RECURSIVE MatchLoop(_, _, _)
MatchLoop(st, size, n) ==
    IF n < size /\ st.fault = "none"
    THEN UNION {MatchLoop(st2, size, n + 1) : st2 \in MatchEntry(st, n)}
    ELSE {st}

\* Lines 180-189: the rows of the entries whose handle was not overwritten.
RECURSIVE UnmatchedRows(_, _, _, _)
UnmatchedRows(arr, size, n, kind) ==
    IF n < size
    THEN (IF arr[n + 1].xHandle # NULL
          THEN <<[kind |-> kind, idx |-> n, name |-> arr[n + 1].pcTaskName]>>
          ELSE <<>>) \o UnmatchedRows(arr, size, n + 1, kind)
    ELSE <<>>

CreatedRowsOverStartSize(earr, ssize, esize) ==
    UnmatchedRows(earr, IF ssize < esize THEN ssize ELSE esize, 0, "Created")
CreatedRows(earr, ssize, esize) == UnmatchedRows(earr, esize, 0, "Created")
DeletedRows(sarr, ssize) == UnmatchedRows(sarr, ssize, 0, "Deleted")

\* History: the tasks in both snapshots, and what each ran in the window.
Handles(snap) == {snap[n].xHandle : n \in 1..Len(snap)}
CounterIn(snap, h) ==
    snap[CHOOSE n \in 1..Len(snap) : snap[n].xHandle = h].ulRunTimeCounter
MatchedTasks == Handles(snap_start) \cap Handles(snap_end)
ElapsedOf(h) == Sub32(CounterIn(snap_end, h), CounterIn(snap_start, h))
RecordedNames(tbl) == {tbl[s].task_name : s \in Slots} \ {NULL}

\* Lines 149-192: the matching loop, the rows of the unmatched entries and
\* the end of the accumulator's pass.
Reconcile ==
    /\ UNCHANGED <<auxvars, watchvars>>
    /\ pc = "match"
    /\ \E out \in MatchLoop([tbl |-> s_accumulated_infos, sarr |-> start_data,
                             earr |-> end_data, total |-> total_elapsed_time,
                             report |-> <<>>, err_log |-> {}, fed |-> <<>>,
                             fault |-> "none"], start_array_size, 0) :
         /\ start_data' = out.sarr
         /\ end_data' = out.earr
         /\ err_log' = out.err_log
         /\ fed' = out.fed
         /\ fault' = out.fault
         /\ IF out.fault # "none"
            THEN /\ pc' = "panic"
                 /\ report' = out.report
                 /\ s_accumulated_infos' = out.tbl
                 /\ UNCHANGED <<ret, run_sum, rec_sum>>
            ELSE /\ pc' = "exit"
                 /\ report' = out.report
                              \o DeletedRows(out.sarr, start_array_size)
                              \o CreatedRows(out.earr, start_array_size,
                                             end_array_size)
                 /\ s_accumulated_infos' = end_calc_accumulated_info(out.tbl)
                 /\ ret' = ESP_OK
                 /\ run_sum' = [h \in Tasks |->
                                  IF h \in MatchedTasks
                                  THEN run_sum[h] + ElapsedOf(h) ELSE 0]
                 /\ rec_sum' = [h \in Tasks |->
                                  IF h \in MatchedTasks
                                     /\ h \notin out.err_log
                                  THEN rec_sum[h] + ElapsedOf(h) ELSE 0]
    /\ UNCHANGED <<start_array, end_array, start_array_size, end_array_size,
                   start_run_time, end_run_time, total_elapsed_time, i, heap,
                   double_free, concvars, snap_start, snap_end, acquired,
                   npass, prev_names>>

\* Lines 194-197: what is released on the common return path.
FreesStartOnly(sp, ep) == <<sp>>
Released(sp, ep) == <<sp, ep>>

\* Lines 191-197: end_calc_accumulated_info is called before the exit label;
\* the statements after the label leave the table as it is, whatever r, the
\* value of ret, is.
ExitEndsPass(tbl, r) ==
    IF r = ESP_OK THEN tbl ELSE end_calc_accumulated_info(tbl)
ExitTable(tbl, r) == tbl

RECURSIVE FreeAll(_, _)
FreeAll(h, ps) ==
    IF ps = <<>> THEN [heap |-> h, twice |-> FALSE]
    ELSE LET rest == FreeAll(FreeOf(h, Head(ps)), Tail(ps))
         IN  [rest EXCEPT !.twice = @ \/ IsDoubleFree(h, Head(ps))]

\* Lines 194-197 and 205-210: release both arrays, return ret to stats_task,
\* which prints the outcome and sleeps one tick before the next pass.  The
\* locals of print_real_time_stats are gone, and the report and the log of
\* the next pass start empty.
Exit ==
    /\ UNCHANGED watchvars
    /\ pc = "exit"
    /\ LET f == FreeAll(heap, Released(start_array, end_array))
       IN  /\ heap' = f.heap
           /\ double_free' = (double_free \/ f.twice)
    /\ pc' = "loop"
    /\ start_array' = NULL /\ end_array' = NULL
    /\ start_data' = <<>> /\ end_data' = <<>>
    /\ start_array_size' = 0 /\ end_array_size' = 0
    /\ start_run_time' = 0 /\ end_run_time' = 0 /\ total_elapsed_time' = 0
    /\ i' = 0
    /\ report' = <<>> /\ err_log' = {} /\ fed' = <<>>
    /\ snap_start' = <<>> /\ snap_end' = <<>>
    /\ prev_names' = IF ret = ESP_OK THEN RecordedNames(s_accumulated_infos)
                     ELSE prev_names
    /\ s_accumulated_infos' = ExitTable(s_accumulated_infos, ret)
    /\ reset_seen' = (reset_seen /\ ret # ESP_OK)
    /\ tbl_before' = IF ret = ESP_OK THEN s_accumulated_infos'
                     ELSE tbl_before
    /\ UNCHANGED <<ret, fault, concvars, acquired, npass, run_sum, rec_sum>>

\* stats_reset_accumulated_infos, run by another task while stats_task is
\* blocked in vTaskDelay (line 126 or line 210).
Reset ==
    /\ UNCHANGED watchvars
    /\ pc \in {"loop", "delay"}
    /\ s_accumulated_infos' = stats_reset_accumulated_infos
    /\ rec_sum' = [h \in Tasks |-> 0]
    /\ reset_seen' = TRUE
    /\ tbl_before' = s_accumulated_infos'
    /\ UNCHANGED <<pc, ret, start_array, end_array, start_data, end_data,
                   start_array_size, end_array_size, start_run_time,
                   end_run_time, total_elapsed_time, i, report, err_log, heap,
                   double_free, fault, concvars, snap_start, snap_end, fed,
                   acquired, npass, run_sum, prev_names>>

Next ==
    \/ StartNoMem
    \/ StartCapture(ResidentTasks, DynamicTasks)
    \/ EndNoMem
    \/ EndCapture(ResidentTasks, DynamicTasks)
    \/ Reconcile
    \/ Exit
    \/ Reset

Spec == Init /\ [][Next]_vars


\* ------------------------------------------ the pass, statement by statement
\* The same code with one action per statement that reads or writes the
\* table, so that stats_reset_accumulated_infos, called by another task, can
\* run between any two of them.

passvars == <<ret, start_array, end_array, start_array_size, end_array_size,
              start_run_time, end_run_time, total_elapsed_time, heap,
              double_free, snap_start, snap_end, acquired, npass, run_sum,
              rec_sum, prev_names>>

\* Lines 152-171: the inner loop for start_array[i], and buf.
OuterStep ==
    /\ UNCHANGED <<auxvars, watchvars>>
    /\ pc = "match"
    /\ i < start_array_size
    /\ LET se == start_data[i + 1]
           k == FindMatch(se, end_data, end_array_size, 0)
       IN  IF k < 0
           THEN /\ i' = i + 1
                /\ UNCHANGED <<pc, start_data, end_data, fault, cur, si,
                               dst_idx, fed>>
           ELSE /\ start_data' = MarkMatched(start_data, i)
                /\ end_data' = MarkMatched(end_data, k)
                /\ UNCHANGED i
                /\ IF Mul32(total_elapsed_time, portNUM_PROCESSORS) = 0
                   THEN /\ pc' = "panic" /\ fault' = "div_zero"
                        /\ UNCHANGED <<cur, si, dst_idx, fed>>
                   ELSE /\ cur' = [task_name |-> se.pcTaskName,
                                   time |-> TaskElapsed(
                                       end_data[k + 1].ulRunTimeCounter,
                                       se.ulRunTimeCounter),
                                   k |-> k]
                        /\ fed' = Append(fed, [task_name |-> se.pcTaskName,
                                               time |-> cur'.time])
                        /\ pc' = "set" /\ si' = 0 /\ dst_idx' = NO_DST
                        /\ UNCHANGED fault
    /\ UNCHANGED <<s_accumulated_infos, report, err_log, rpc, ri, res,
                   passvars>>

\* Lines 42-55: one test of the slot loop of set_accumulated_info.
SetCheck ==
    /\ UNCHANGED <<auxvars, watchvars>>
    /\ pc = "set"
    /\ IF si < ACCUMULATED_INFO_NUM
       THEN IF s_accumulated_infos[si].task_name = cur.task_name
            THEN pc' = "set_add" /\ UNCHANGED <<si, dst_idx, err_log>>
            ELSE /\ si' = si + 1
                 /\ dst_idx' = IF s_accumulated_infos[si].task_name = NULL
                                  /\ dst_idx = NO_DST
                               THEN si ELSE dst_idx
                 /\ UNCHANGED <<pc, err_log>>
       ELSE IF dst_idx = NO_DST
            THEN /\ err_log' = err_log \cup {cur.task_name}
                 /\ pc' = "get" /\ si' = 0
                 /\ UNCHANGED dst_idx
            ELSE pc' = "set_new_name" /\ UNCHANGED <<si, dst_idx, err_log>>
    /\ UNCHANGED <<s_accumulated_infos, start_data, end_data, i, report,
                   fault, rpc, ri, cur, res, fed, passvars>>

\* Lines 44-46 and 56-58: one store of set_accumulated_info.
SetStore ==
    /\ UNCHANGED <<auxvars, watchvars>>
    /\ pc \in {"set_add", "set_run", "set_new_name", "set_new_time",
               "set_new_run"}
    /\ s_accumulated_infos' =
         [s_accumulated_infos EXCEPT
            ![IF pc \in {"set_add", "set_run"} THEN si ELSE dst_idx] =
               IF pc = "set_add" THEN [@ EXCEPT !.time = @ + cur.time]
               ELSE IF pc = "set_new_name"
               THEN [@ EXCEPT !.task_name = cur.task_name]
               ELSE IF pc = "set_new_time" THEN [@ EXCEPT !.time = cur.time]
               ELSE [@ EXCEPT !.is_running = TRUE]]
    /\ pc' = IF pc = "set_add" THEN "set_run"
             ELSE IF pc = "set_new_name" THEN "set_new_time"
             ELSE IF pc = "set_new_time" THEN "set_new_run"
             ELSE "get"
    /\ si' = IF pc' = "get" THEN 0 ELSE si
    /\ UNCHANGED <<start_data, end_data, i, report, err_log, fault, rpc, ri,
                   dst_idx, cur, res, fed, passvars>>

\* Lines 62-67: one test of the slot loop of get_accumulated_info.
GetCheck ==
    /\ UNCHANGED <<auxvars, watchvars>>
    /\ pc = "get"
    /\ IF si < ACCUMULATED_INFO_NUM
       THEN IF s_accumulated_infos[si].task_name = cur.task_name
            THEN res' = si /\ pc' = "print" /\ UNCHANGED si
            ELSE si' = si + 1 /\ UNCHANGED <<pc, res>>
       ELSE res' = -1 /\ pc' = "print" /\ UNCHANGED si
    /\ UNCHANGED <<s_accumulated_infos, start_data, end_data, i, report,
                   err_log, fault, rpc, ri, dst_idx, cur, fed, passvars>>

\* Line 175: the row of the matched task, res->time read now.
PrintRow ==
    /\ UNCHANGED <<auxvars, watchvars>>
    /\ pc = "print"
    /\ \/ /\ res >= 0
          /\ report' = Append(report,
                MatchedRow(i, cur.k, cur.task_name, cur.time,
                           s_accumulated_infos[res].time,
                           PercentageOf(cur.time, total_elapsed_time)))
          /\ pc' = "match" /\ i' = i + 1
          /\ UNCHANGED fault
       \/ /\ res < 0
          /\ pc' = "panic" /\ fault' = "null_deref"
          /\ UNCHANGED <<i, report>>
       \/ /\ res < 0
          /\ \E w \in WildReads :
               report' = Append(report,
                  MatchedRow(i, cur.k, cur.task_name, cur.time, w,
                             PercentageOf(cur.time, total_elapsed_time)))
          /\ pc' = "match" /\ i' = i + 1
          /\ UNCHANGED fault
    /\ UNCHANGED <<s_accumulated_infos, start_data, end_data, err_log, rpc,
                   ri, si, dst_idx, cur, res, fed, passvars>>

\* Lines 179-189: the outer loop is over; the rows of the unmatched entries.
PrintUnmatched ==
    /\ UNCHANGED <<auxvars, watchvars>>
    /\ pc = "match"
    /\ i = start_array_size
    /\ report' = report \o DeletedRows(start_data, start_array_size)
                        \o CreatedRows(end_data, start_array_size,
                                       end_array_size)
    /\ pc' = "end_test" /\ si' = 0
    /\ UNCHANGED <<s_accumulated_infos, start_data, end_data, i, err_log,
                   fault, rpc, ri, dst_idx, cur, res, fed, passvars>>

\* Lines 71-79 and 192: one statement of end_calc_accumulated_info.
EndCalcStep ==
    /\ UNCHANGED <<auxvars, watchvars>>
    /\ pc \in {"end_test", "end_name", "end_time", "end_run"}
    /\ IF pc = "end_test"
       THEN /\ pc' = IF si = ACCUMULATED_INFO_NUM THEN "exit"
                     ELSE IF ~s_accumulated_infos[si].is_running
                     THEN "end_name" ELSE "end_run"
            /\ ret' = IF si = ACCUMULATED_INFO_NUM THEN ESP_OK ELSE ret
            /\ UNCHANGED <<s_accumulated_infos, si>>
       ELSE /\ s_accumulated_infos' =
                 [s_accumulated_infos EXCEPT ![si] =
                    IF pc = "end_name" THEN [@ EXCEPT !.task_name = NULL]
                    ELSE IF pc = "end_time" THEN [@ EXCEPT !.time = 0]
                    ELSE [@ EXCEPT !.is_running = FALSE]]
            /\ pc' = IF pc = "end_name" THEN "end_time" ELSE "end_test"
            /\ si' = IF pc = "end_name" THEN si ELSE si + 1
            /\ UNCHANGED ret
    /\ UNCHANGED <<start_array, end_array, start_data, end_data,
                   start_array_size, end_array_size, start_run_time,
                   end_run_time, total_elapsed_time, i, report, err_log, heap,
                   double_free, fault, rpc, ri, dst_idx, cur, res, histvars>>

\* Lines 31-37: stats_reset_accumulated_infos is called by another task;
\* then one store of its loop at a time.
ResetCall ==
    /\ UNCHANGED <<auxvars, watchvars>>
    /\ rpc = "idle"
    /\ rpc' = "name" /\ ri' = 0
    /\ UNCHANGED <<progvars, si, dst_idx, cur, res, histvars>>

ResetStore ==
    /\ UNCHANGED <<auxvars, watchvars>>
    /\ rpc \in {"name", "time", "run"}
    /\ s_accumulated_infos' =
         [s_accumulated_infos EXCEPT ![ri] =
            IF rpc = "name" THEN [@ EXCEPT !.task_name = NULL]
            ELSE IF rpc = "time" THEN [@ EXCEPT !.time = 0]
            ELSE [@ EXCEPT !.is_running = FALSE]]
    /\ rpc' = IF rpc = "name" THEN "time"
              ELSE IF rpc = "time" THEN "run"
              ELSE IF ri + 1 = ACCUMULATED_INFO_NUM THEN "idle" ELSE "name"
    /\ ri' = IF rpc = "run" THEN ri + 1 ELSE ri
    /\ UNCHANGED <<pc, ret, start_array, end_array, start_data, end_data,
                   start_array_size, end_array_size, start_run_time,
                   end_run_time, total_elapsed_time, i, report, err_log, heap,
                   double_free, fault, si, dst_idx, cur, res, histvars>>

NextConc ==
    \/ StartNoMem
    \/ StartCapture(ConcResident, ConcDynamic)
    \/ EndNoMem
    \/ EndCapture(ConcResident, ConcDynamic)
    \/ OuterStep
    \/ SetCheck
    \/ SetStore
    \/ GetCheck
    \/ PrintRow
    \/ PrintUnmatched
    \/ EndCalcStep
    \/ Exit
    \/ ResetCall
    \/ ResetStore

SpecConc == Init /\ [][NextConc]_vars

\* The scheduler runs stats_task whenever it is ready: its delays expire and
\* no task of higher priority keeps the processor.
StatsTaskNext ==
    \/ StartNoMem
    \/ StartCapture(ResidentTasks, DynamicTasks)
    \/ EndNoMem
    \/ EndCapture(ResidentTasks, DynamicTasks)
    \/ Reconcile
    \/ Exit

SpecFair == Init /\ [][Next]_vars /\ WF_vars(StatsTaskNext)

\* ------------------------------------------------- the table, call by call
\* set_accumulated_info, end_calc_accumulated_info and
\* stats_reset_accumulated_infos called one at a time, in any order, on the
\* table.  pc is the last call, cur its argument, tbl_before the table before
\* it, err_log the names for which "buffer is full" was logged since the last
\* end_calc_accumulated_info or reset, prev_names the names that had a record
\* right after that call, npass the number of end_calc_accumulated_info calls.
untabled == <<ret, start_array, end_array, start_data, end_data,
              start_array_size, end_array_size, start_run_time, end_run_time,
              total_elapsed_time, i, report, heap, double_free, fault, rpc,
              ri, si, dst_idx, res, snap_start, snap_end, fed, acquired,
              run_sum, rec_sum, reset_seen, watchvars>>

\* The names a caller may leave out between two record calls, and the
\* greatest accumulated time a call may produce.
Skippable == {Min(ResidentTasks)} \cup DynamicTasks
AccumCap == (MaxPasses + 1) * Max({MaxElapsed, ResidentElapsed})

\* Lines 40-59: set_accumulated_info(&buf).  Between two end_calc calls the
\* names come in ascending order; a dynamic name may be recorded again.
RecordCall(name, delta) ==
    /\ \/ name > cur.task_name
          /\ \A n \in Tasks : (cur.task_name < n /\ n < name)
                                => n \in Skippable
       \/ name = cur.task_name /\ name \in DynamicTasks
    /\ LET r == set_accumulated_info(s_accumulated_infos,
                                     [task_name |-> name, time |-> delta])
       IN  /\ \A s \in Slots : r.tbl[s].time <= AccumCap
           /\ s_accumulated_infos' = r.tbl
           /\ err_log' = IF r.full THEN err_log \cup {name} ELSE err_log
    /\ cur' = [task_name |-> name, time |-> delta, k |-> -1]
    /\ pc' = "record"
    /\ tbl_before' = s_accumulated_infos
    /\ UNCHANGED <<npass, prev_names, untabled>>

\* Lines 70-80: end_calc_accumulated_info().
EndPassCall ==
    /\ npass < MaxPasses
    /\ cur.task_name = NULL \/ cur.task_name >= Max(ResidentTasks)
    /\ s_accumulated_infos' = end_calc_accumulated_info(s_accumulated_infos)
    /\ err_log' = {}
    /\ cur' = NoBuf
    /\ pc' = "end_pass"
    /\ tbl_before' = s_accumulated_infos
    /\ npass' = npass + 1
    /\ prev_names' = RecordedNames(s_accumulated_infos')
    /\ UNCHANGED untabled

\* Lines 31-38: stats_reset_accumulated_infos().
ResetAllCall ==
    /\ s_accumulated_infos' = stats_reset_accumulated_infos
    /\ err_log' = {}
    /\ cur' = NoBuf
    /\ pc' = "reset_all"
    /\ tbl_before' = s_accumulated_infos'
    /\ prev_names' = {}
    /\ UNCHANGED <<npass, untabled>>

NextTable ==
    \/ \E name \in ResidentTasks : RecordCall(name, ResidentElapsed)
    \/ \E name \in DynamicTasks, delta \in 0..MaxElapsed :
          RecordCall(name, delta)
    \/ EndPassCall
    \/ ResetAllCall

SpecTable == Init /\ [][NextTable]_vars

\* ------------------------------------------------ line 166, value by value
\* The percentage of one matched task for chosen values of task_elapsed_time
\* (cur.time) and total_elapsed_time; line 144 has let the pass go on, so
\* total_elapsed_time is not 0.
PctElapsed == {0, 1, 2, 99, UINT32_MOD \div 100, UINT32_MOD \div 100 + 1,
               1000, UINT32_MOD \div 2 - 1, UINT32_MOD \div 2,
               UINT32_MOD - 2, UINT32_MOD - 1}
PctTotals == {1, 2, 3, 100, UINT32_MOD \div 200, 1000,
              UINT32_MOD \div 2 - 1, UINT32_MOD \div 2,
              UINT32_MOD \div 2 + 1, UINT32_MOD - 1}

InitPct ==
    /\ s_accumulated_infos = [s \in Slots |-> EmptySlot]
    /\ pc = "percent"
    /\ ret = "none"
    /\ start_array = NULL /\ end_array = NULL
    /\ start_data = <<>> /\ end_data = <<>>
    /\ start_array_size = 0 /\ end_array_size = 0
    /\ start_run_time = 0 /\ end_run_time = 0
    /\ total_elapsed_time \in PctTotals
    /\ i = 0
    /\ report = <<>>
    /\ err_log = {}
    /\ heap = {}
    /\ double_free = FALSE
    /\ fault = "none"
    /\ rpc = "idle" /\ ri = 0 /\ si = 0
    /\ dst_idx = NO_DST /\ res = -1
    /\ cur \in {[task_name |-> Min(Tasks), time |-> e, k |-> 0] :
                   e \in PctElapsed}
    /\ snap_start = <<>> /\ snap_end = <<>>
    /\ fed = <<>>
    /\ acquired = 0
    /\ npass = 0
    /\ run_sum = [h \in Tasks |-> 0]
    /\ rec_sum = [h \in Tasks |-> 0]
    /\ prev_names = {}
    /\ reset_seen = FALSE
    /\ tbl_before = [s \in Slots |-> EmptySlot]
    /\ handler = stats_run_time_init
    /\ esp_timer = 0
    /\ sw_last = [call |-> "init", before |-> stats_run_time_init]
    /\ sw_sum = 0
    /\ sw_open = -1

\* Lines 166 and 175: the percentage is computed and printed.
ComputePercentage ==
    /\ pc = "percent"
    /\ IF Mul32(total_elapsed_time, portNUM_PROCESSORS) = 0
       THEN /\ fault' = "div_zero" /\ pc' = "panic"
            /\ UNCHANGED report
       ELSE /\ report' = <<MatchedRow(0, cur.k, cur.task_name, cur.time, 0,
                              PercentageOf(cur.time, total_elapsed_time))>>
            /\ pc' = "printed"
            /\ UNCHANGED fault
    /\ UNCHANGED <<s_accumulated_infos, ret, start_array, end_array,
                   start_data, end_data, start_array_size, end_array_size,
                   start_run_time, end_run_time, total_elapsed_time, i,
                   err_log, heap, double_free, concvars, histvars, auxvars,
                   watchvars>>

NextPct == ComputePercentage

SpecPct == InitPct /\ [][NextPct]_vars

\* ---------------------------------------------------------- the stopwatch
\* One handler made by stats_run_time_init, its caller and the clock.  p is
\* the pointer the caller passes: NULL, or the handler.
HandlerPtrs == {NULL, 1}

\* esp_timer_get_time moves on.
TimerTick ==
    /\ esp_timer < MaxClock
    /\ esp_timer' = esp_timer + 1
    /\ UNCHANGED <<progvars, concvars, histvars, auxvars, handler, sw_last,
                   sw_sum, sw_open>>

\* Lines 236-247.
RunTimeStart(p) ==
    /\ handler' = IF p = NULL THEN handler
                  ELSE stats_run_time_start(handler, esp_timer)
    /\ sw_last' = [call |-> IF p = NULL THEN "start_null" ELSE "start",
                   before |-> handler]
    /\ sw_open' = IF p # NULL /\ sw_open = -1 THEN esp_timer ELSE sw_open
    /\ UNCHANGED <<progvars, concvars, histvars, auxvars, esp_timer, sw_sum>>

\* Lines 249-260.
RunTimeStop(p) ==
    /\ handler' = IF p = NULL THEN handler
                  ELSE stats_run_time_stop(handler, esp_timer)
    /\ sw_last' = [call |-> IF p = NULL THEN "stop_null" ELSE "stop",
                   before |-> handler]
    /\ sw_sum' = IF p # NULL /\ sw_open # -1
                 THEN sw_sum + (esp_timer - sw_open) ELSE sw_sum
    /\ sw_open' = IF p # NULL THEN -1 ELSE sw_open
    /\ UNCHANGED <<progvars, concvars, histvars, auxvars, esp_timer>>

NextWatch ==
    \/ TimerTick
    \/ \E p \in HandlerPtrs : RunTimeStart(p)
    \/ \E p \in HandlerPtrs : RunTimeStop(p)

SpecWatch == Init /\ [][NextWatch]_vars

\* ------------------------------------------------------------ the claims
\* A pass has just ended with success: end_calc_accumulated_info has run and
\* the arrays are about to be released.
Done == pc = "exit" /\ ret = ESP_OK

Lookup(name) == get_accumulated_info(s_accumulated_infos, name)

RowsAt(kind, n) ==
    {r \in 1..Len(report) : report[r].kind = kind /\ report[r].idx = n}
MatchedRowsOfEnd(m) ==
    {r \in 1..Len(report) : report[r].kind = "Matched" /\ report[r].k = m}
FedNames == {fed[n].task_name : n \in 1..Len(fed)}

\* C1: when a matched task finds the table full ("buffer is full" is
\* logged for it), the pass does not fault.
C1_AccumulatorFullNonFatal == err_log # {} => fault = "none"

C3_EvictionLaw ==
    Done => \A h \in prev_names \ MatchedTasks : Lookup(h) = -1

C3_Witness ==
    /\ Done
    /\ \E h \in prev_names \ MatchedTasks : Lookup(h) = -1
    /\ \E h \in prev_names \cap MatchedTasks : Lookup(h) >= 0

BothCaptured == snap_end # <<>>

C5_ClassifiedOnce ==
    Done => \A n \in 0..(Len(snap_start) - 1) :
              /\ Cardinality(RowsAt("Matched", n))
                   + Cardinality(RowsAt("Deleted", n)) = 1
              /\ snap_start[n + 1].xHandle \in Handles(snap_end)
                   => /\ RowsAt("Deleted", n) = {}
                      /\ \A r \in RowsAt("Matched", n) :
                           /\ snap_end[report[r].k + 1].xHandle
                                = snap_start[n + 1].xHandle
                           /\ RowsAt("Created", report[r].k) = {}

C5_Witness ==
    /\ Done
    /\ \E n \in 0..(Len(snap_start) - 1) :
         /\ snap_start[n + 1].xHandle \in DynamicTasks \cap Handles(snap_end)
         /\ Cardinality(RowsAt("Matched", n)) = 1
    /\ \E n \in 0..(Len(snap_start) - 1) :
         /\ snap_start[n + 1].xHandle \notin Handles(snap_end)
         /\ Cardinality(RowsAt("Deleted", n)) = 1

\* C6: in a successful pass every start entry whose handle is not in the end
\* snapshot has exactly one Deleted row, no Matched row, and its name is never
\* passed to set_accumulated_info.
C6_StartOnlyDeletedOnce ==
    Done => \A n \in 0..(Len(snap_start) - 1) :
              snap_start[n + 1].xHandle \notin Handles(snap_end)
                => /\ Cardinality(RowsAt("Deleted", n)) = 1
                   /\ RowsAt("Matched", n) = {}
                   /\ snap_start[n + 1].pcTaskName \notin FedNames

\* ... an end entry of another task carries the same name text.
C6_Witness ==
    /\ Done
    /\ \E n \in 0..(Len(snap_start) - 1), m \in 0..(Len(snap_end) - 1) :
         /\ snap_start[n + 1].xHandle \notin Handles(snap_end)
         /\ snap_end[m + 1].xHandle \notin Handles(snap_start)
         /\ TaskText(snap_start[n + 1].pcTaskName)
              = TaskText(snap_end[m + 1].pcTaskName)
         /\ Cardinality(RowsAt("Deleted", n)) = 1

\* C7: in a successful pass every end entry whose handle is not in the start
\* snapshot has exactly one Created row, no Matched row, and its name is never
\* passed to set_accumulated_info.
C7_EndOnlyCreatedOnce ==
    Done => \A m \in 0..(Len(snap_end) - 1) :
              snap_end[m + 1].xHandle \notin Handles(snap_start)
                => /\ Cardinality(RowsAt("Created", m)) = 1
                   /\ MatchedRowsOfEnd(m) = {}
                   /\ snap_end[m + 1].pcTaskName \notin FedNames
                   /\ Lookup(snap_end[m + 1].pcTaskName) = -1

C7_Witness ==
    /\ Done
    /\ Len(snap_end) > Len(snap_start)
    /\ \E m \in 0..(Len(snap_end) - 1) :
         /\ snap_end[m + 1].xHandle \notin Handles(snap_start)
         /\ snap_end[m + 1].pcTaskName \in prev_names
         /\ Cardinality(RowsAt("Created", m)) = 1

\* C8: between passes no snapshot buffer is allocated, whatever the outcome
\* of the pass, and no buffer is ever released twice.
C8_BuffersReleased ==
    /\ pc = "loop" => heap = {}
    /\ ~double_free

C8_Witness ==
    /\ pc = "loop" /\ heap = {}
    /\ ret = ESP_ERR_INVALID_SIZE
    /\ acquired = 2


PassFailed ==
    \/ pc = "exit" /\ ret \in {ESP_ERR_NO_MEM, ESP_ERR_INVALID_SIZE,
                               ESP_ERR_INVALID_STATE}
    \/ err_log # {}

\* C9: after a pass that ends in an error or in which the table was full for
\* a task, stats_task eventually starts a further pass (as long as the bound
\* on the number of passes allows one).
C9_NoErrorIsFatal ==
    \A n \in 1..(MaxPasses - 1) :
        (npass = n /\ PassFailed) ~> (npass = n + 1)

\* C10: with stats_reset_accumulated_infos running between any two statements
\* of a pass, the pass does not fault, the lookup after a record finds a
\* record, and no two slots hold the same name.
C10_ResetAtAnyTime ==
    /\ fault = "none"
    /\ pc = "print" => res >= 0
    /\ \A s, t \in Slots :
         (s # t /\ s_accumulated_infos[s].task_name # NULL)
            => s_accumulated_infos[s].task_name
                 # s_accumulated_infos[t].task_name

\* The pass in progress, if any, has not recorded yet.
NotRecordedYet ==
    \/ pc \in {"loop", "delay", "match"}
    \/ pc = "exit" /\ ret # ESP_OK

Recorded == pc = "record"
\* The slot that held the name of the last call before the call, or -1.
SlotBefore == get_accumulated_info(tbl_before, cur.task_name)

\* C12: set_accumulated_info with time 0 for a name that has a record leaves
\* the time of the record and every other slot as they were and sets the
\* record's is_running; when the record was already seen the table is the
\* same after the call, and one more such call gives the same table again.
C12_RecordZeroIdempotent ==
    (Recorded /\ cur.time = 0 /\ SlotBefore >= 0) =>
        /\ s_accumulated_infos[SlotBefore].task_name = cur.task_name
        /\ s_accumulated_infos[SlotBefore].time = tbl_before[SlotBefore].time
        /\ s_accumulated_infos[SlotBefore].is_running
        /\ \A t \in Slots \ {SlotBefore} :
              s_accumulated_infos[t] = tbl_before[t]
        /\ tbl_before[SlotBefore].is_running
              => s_accumulated_infos = tbl_before
        /\ set_accumulated_info(s_accumulated_infos,
                                [task_name |-> cur.task_name,
                                 time |-> 0]).tbl = s_accumulated_infos

\* The second of two calls with time 0 in one pass, on a record that has
\* accumulated time.
C12_Witness ==
    /\ Recorded /\ cur.time = 0 /\ SlotBefore >= 0
    /\ tbl_before[SlotBefore].is_running
    /\ tbl_before[SlotBefore].time > 0
    /\ s_accumulated_infos = tbl_before

\* C13: a set_accumulated_info call whose name has no record creates one
\* (time = the time passed, is_running = true) as long as fewer than
\* ACCUMULATED_INFO_NUM slots are occupied, so that from an empty table
\* "buffer is full" is not logged before ACCUMULATED_INFO_NUM names have a
\* record; with every slot occupied the call logs "buffer is full" and leaves
\* the table as it was; no call changes more than one slot.
C13_Capacity ==
    /\ Recorded =>
          Cardinality({s \in Slots :
                         s_accumulated_infos[s] # tbl_before[s]}) <= 1
    /\ (Recorded /\ SlotBefore = -1
          /\ Cardinality(RecordedNames(tbl_before)) < ACCUMULATED_INFO_NUM) =>
          /\ Lookup(cur.task_name) >= 0
          /\ s_accumulated_infos[Lookup(cur.task_name)].time = cur.time
          /\ s_accumulated_infos[Lookup(cur.task_name)].is_running
          /\ RecordedNames(s_accumulated_infos)
                = RecordedNames(tbl_before) \cup {cur.task_name}
    /\ prev_names = {} =>
          \/ err_log = {}
          \/ Cardinality(RecordedNames(s_accumulated_infos))
                = ACCUMULATED_INFO_NUM
    /\ (Recorded /\ SlotBefore = -1
          /\ Cardinality(RecordedNames(tbl_before)) = ACCUMULATED_INFO_NUM) =>
          /\ s_accumulated_infos = tbl_before
          /\ cur.task_name \in err_log

\* The 17th distinct name of a pass that began with an empty table.
C13_Witness ==
    /\ Recorded /\ prev_names = {}
    /\ err_log = {cur.task_name}
    /\ cur.time > 0
    /\ Cardinality(RecordedNames(s_accumulated_infos)) = ACCUMULATED_INFO_NUM
    /\ \A s \in Slots : /\ s_accumulated_infos[s].is_running
                         /\ s_accumulated_infos[s].time > 0
    /\ s_accumulated_infos = tbl_before

\* C14: the percentage printed for a matched task is
\* floor(task_elapsed_time * 100 / (total_elapsed_time * portNUM_PROCESSORS))
\* over the integers, whatever the two values are, and line 166 never divides
\* by zero.
C14_PercentageExact ==
    /\ fault # "div_zero"
    /\ \A r \in 1..Len(report) :
         report[r].kind = "Matched" =>
            report[r].percentage
              = (report[r].run_time * 100)
                  \div (total_elapsed_time * portNUM_PROCESSORS)

\* C15: when a pass has succeeded, every task in both snapshots has a Matched
\* row and a set_accumulated_info call, and the elapsed time of the row and
\* of the call is the one value below 2^32 that, added to the task's counter
\* in the first snapshot modulo 2^32, gives its counter in the second.
C15_ElapsedModular ==
    Done =>
      /\ \A r \in 1..Len(report) :
            report[r].kind = "Matched" =>
              /\ report[r].name \in MatchedTasks
              /\ report[r].run_time \in 0..(UINT32_MOD - 1)
              /\ (CounterIn(snap_start, report[r].name) + report[r].run_time)
                    % UINT32_MOD = CounterIn(snap_end, report[r].name)
              /\ \E n \in 1..Len(fed) :
                    fed[n] = [task_name |-> report[r].name,
                              time |-> report[r].run_time]
      /\ \A h \in MatchedTasks :
            /\ \E r \in 1..Len(report) :
                  report[r].kind = "Matched" /\ report[r].name = h
            /\ Cardinality({n \in 1..Len(fed) : fed[n].task_name = h}) = 1

\* A matched task whose counter wrapped during the window.
C15_Witness ==
    /\ Done
    /\ \E r \in 1..Len(report) :
         /\ report[r].kind = "Matched"
         /\ report[r].run_time = MaxElapsed
         /\ CounterIn(snap_end, report[r].name)
               < CounterIn(snap_start, report[r].name)
         /\ \E n \in 1..Len(fed) :
               fed[n] = [task_name |-> report[r].name, time |-> MaxElapsed]

\* C16: stats_run_time_start on a handler in state START and
\* stats_run_time_stop on a handler in state STOP leave the handler as it
\* was; the handler's time is the sum of the lengths of the intervals from a
\* start that found no interval open to the next stop, and an interval is
\* open exactly while the state is START, begun at handler.start.
C16_MisuseNoOp ==
    /\ (sw_last.call = "start"
          /\ sw_last.before.state = STATS_MEASURE_START)
          => handler = sw_last.before
    /\ (sw_last.call = "stop"
          /\ sw_last.before.state = STATS_MEASURE_STOP)
          => handler = sw_last.before
    /\ handler.time = sw_sum
    /\ (handler.state = STATS_MEASURE_START) = (sw_open # -1)
    /\ handler.state = STATS_MEASURE_START => handler.start = sw_open

\* A second start, later than the first, after an interval was closed.
C16_Witness ==
    /\ sw_last.call = "start"
    /\ sw_last.before.state = STATS_MEASURE_START
    /\ esp_timer > handler.start
    /\ handler.time > 0
    /\ handler.start > 0

\* C17: after end_calc_accumulated_info no slot is seen; a slot that was
\* occupied and seen keeps its name and its time; a slot that was not seen
\* has no name and time 0.  So no slot is seen when the record calls of a
\* pass begin: at the start, after end_calc_accumulated_info and after a
\* reset.
C17_EndPassTransitions ==
    /\ pc = "end_pass" =>
          \A s \in Slots :
              /\ ~s_accumulated_infos[s].is_running
              /\ (tbl_before[s].task_name # NULL /\ tbl_before[s].is_running)
                    => /\ s_accumulated_infos[s].task_name
                            = tbl_before[s].task_name
                       /\ s_accumulated_infos[s].time = tbl_before[s].time
              /\ ~tbl_before[s].is_running
                    => /\ s_accumulated_infos[s].task_name = NULL
                       /\ s_accumulated_infos[s].time = 0
    /\ pc \in {"loop", "end_pass", "reset_all"} =>
          \A s \in Slots : ~s_accumulated_infos[s].is_running

\* An end_calc_accumulated_info call that keeps one record and evicts
\* another.
C17_Witness ==
    /\ pc = "end_pass"
    /\ \E s, t \in Slots :
         /\ tbl_before[s].is_running /\ tbl_before[s].time > 0
         /\ s_accumulated_infos[s].task_name = tbl_before[s].task_name
         /\ tbl_before[t].task_name # NULL /\ tbl_before[t].time > 0
         /\ ~tbl_before[t].is_running
         /\ s_accumulated_infos[t] = EmptySlot

\* C18: whatever set_accumulated_info, end_calc_accumulated_info and
\* stats_reset_accumulated_infos calls were made, no two occupied slots hold
\* the same name, at most ACCUMULATED_INFO_NUM slots are occupied and every
\* slot without a name has time 0.
C18_NameUniqueness ==
    /\ \A s, t \in Slots :
         (s # t /\ s_accumulated_infos[s].task_name # NULL)
            => s_accumulated_infos[s].task_name
                 # s_accumulated_infos[t].task_name
    /\ Cardinality({s \in DOMAIN s_accumulated_infos :
                       s_accumulated_infos[s].task_name # NULL})
          <= ACCUMULATED_INFO_NUM
    /\ \A s \in Slots :
         s_accumulated_infos[s].task_name = NULL
            => s_accumulated_infos[s].time = 0

\* A full table in which the slot of an evicted name was taken by another
\* name, after a name was recorded twice in the pass.
C18_Witness ==
    /\ Recorded /\ SlotBefore >= 0
    /\ tbl_before[SlotBefore].is_running
    /\ Cardinality(RecordedNames(s_accumulated_infos)) = ACCUMULATED_INFO_NUM
    /\ s_accumulated_infos[0].task_name \in DynamicTasks

\* The last pass returned an error, or is about to.
Aborted ==
    /\ pc \in {"exit", "loop"}
    /\ ret \in {ESP_ERR_NO_MEM, ESP_ERR_INVALID_SIZE, ESP_ERR_INVALID_STATE}

\* C19: when print_real_time_stats returns ESP_ERR_NO_MEM,
\* ESP_ERR_INVALID_SIZE or ESP_ERR_INVALID_STATE it has made no
\* set_accumulated_info call, and the table is the one the pass found (the
\* emptied one, if another task reset it in the meantime).
C19_AbortedPassKeepsTable ==
    Aborted =>
        /\ s_accumulated_infos = tbl_before
        /\ fed = <<>>
        /\ \A r \in 1..Len(report) : report[r].kind # "Matched"

\* A pass has returned ESP_ERR_INVALID_STATE and the records of the pass
\* before it are still there.
C19_Witness ==
    /\ pc = "loop" /\ ret = ESP_ERR_INVALID_STATE
    /\ npass = MaxPasses
    /\ \A h \in ResidentTasks :
         /\ Lookup(h) >= 0
         /\ s_accumulated_infos[Lookup(h)].time = ResidentElapsed
    /\ s_accumulated_infos = tbl_before

====
